---- MODULE Spec2Model ----
(***************************************************************************)
(* Model of app.py: the reset-token table (ResetToken), the DB helpers     *)
(* create_token / get_token_row / mark_used, the Flask handlers get_reset  *)
(* and post_reset, and the Telegram conversation that issues tokens.       *)
(*                                                                         *)
(* Time is counted in minutes.  Strings that the code inspects character   *)
(* by character (the e-mail text) are sequences of one-character strings.  *)
(***************************************************************************)
EXTENDS Integers, Sequences, FiniteSets, TLC

\* ------------------------------------------------------------------ bounds
MaxTime == 61
NumWorkers == 2
\* longest message text and number of rows, where every text is tried
MaxTextLen == 7
MaxIssued == 1

\* ---------------------------------------------------------------- constants
RESET_EXPIRY_MINUTES == 60
ASK_EMAIL == 0
ConversationHandler_END == -1

\* clock increments between two observations of datetime.utcnow()
TickSteps == {RESET_EXPIRY_MINUTES, RESET_EXPIRY_MINUTES + 1}

\* values secrets.token_urlsafe may return
GenTokens == {"t1", "t2"}
\* values of the ?token= query parameter ("" when absent)
TokenArgs == GenTokens \cup {"", "zz"}
\* values of the password form field ("" when absent)
Passwords == {"", "pw"}
\* free-text messages a user may send to the bot: one address, as it is
\* stored and with capital and blanks, and a text that is no address
EmailTexts ==
    { <<"b", "@", "b", ".", "c">>,
      <<" ", "B", "@", "b", ".", "c", " ">>,
      <<"a", "b">> }
\* every non-empty message text of at most MaxTextLen characters over a
\* letter, '@', '.' and the blank
TextChars == {"a", "@", ".", " "}
Texts == UNION { [1 .. n -> TextChars] : n \in 1 .. MaxTextLen }

NoRow == [id |-> 0]
NoEmail == << >>
NoPending == [token |-> "", to |-> << >>]
NoCreating == [token |-> "", to |-> << >>, at |-> 0]
NoMail == [to |-> << >>, token |-> "", sent |-> FALSE]

\* ------------------------------------------------------------ str helpers
IsSpace(c) == c = " "

LowerChar(c) == IF c = "A" THEN "a" ELSE IF c = "B" THEN "b" ELSE c

\* str.lower()
Lower(s) == [i \in 1 .. Len(s) |-> LowerChar(s[i])]

RECURSIVE LStrip(_)
LStrip(s) == IF s # << >> /\ IsSpace(Head(s)) THEN LStrip(Tail(s)) ELSE s

RECURSIVE RStrip(_)
RStrip(s) ==
    IF s # << >> /\ IsSpace(s[Len(s)]) THEN RStrip(SubSeq(s, 1, Len(s) - 1)) ELSE s

\* str.strip()
Strip(s) == RStrip(LStrip(s))

\* the character class [^@\s]
EmailChar(c) == c # "@" /\ ~IsSpace(c)

\* EMAIL_RE.match(email) is not None: re.match anchors the pattern
\* [^@\s]+@[^@\s]+\.[^@\s]+ at the start of the text only.
valid_email(email) ==
    \E i \in 1 .. Len(email), j \in 1 .. Len(email) :
        /\ \A k \in 1 .. i : EmailChar(email[k])
        /\ i + 1 <= Len(email) /\ email[i + 1] = "@"
        /\ j >= i + 2
        /\ \A k \in (i + 2) .. j : EmailChar(email[k])
        /\ j + 2 <= Len(email)
        /\ email[j + 1] = "."
        /\ EmailChar(email[j + 2])

\* --------------------------------------------------------------- DB helpers
\* session.query(ResetToken).filter(ResetToken.token == token).first()
QueryFirst(st, token) ==
    LET hits == {i \in 1 .. Len(st) : st[i].token = token} IN
    IF hits = {} THEN NoRow
    ELSE st[CHOOSE i \in hits : \A k \in hits : i <= k]

\* create_token without email.lower().strip()
NewRow_raw_email(st, email, token, t) ==
    [id |-> Len(st) + 1,
     email |-> email,
     token |-> token,
     created_at |-> t,
     expires_at |-> t + RESET_EXPIRY_MINUTES,
     used |-> FALSE]

\* The row create_token adds: email normalised, expires_at = now + window.
NewRow(st, email, token, t) ==
    [id |-> Len(st) + 1,
     email |-> Strip(Lower(email)),
     token |-> token,
     created_at |-> t,
     expires_at |-> t + RESET_EXPIRY_MINUTES,
     used |-> FALSE]

\* create_token on a table without the unique index on token
create_token_no_unique_index(st, email, token, t) ==
    [ok |-> TRUE, store |-> Append(st, NewRow(st, email, token, t)), token |-> token]

\* create_token without session.commit(): the token is returned, the row is lost
create_token_no_commit(st, email, token, t) ==
    IF \E i \in 1 .. Len(st) : st[i].token = token
    THEN [ok |-> FALSE, store |-> st, token |-> token]
    ELSE [ok |-> TRUE, store |-> st, token |-> token]

\* create_token: the commit fails on the unique index of token, and then no
\* row is added and the exception leaves the function (ok = FALSE).
create_token(st, email, token, t) ==
    IF \E i \in 1 .. Len(st) : st[i].token = token
    THEN [ok |-> FALSE, store |-> st, token |-> token]
    ELSE [ok |-> TRUE, store |-> Append(st, NewRow(st, email, token, t)), token |-> token]

get_token_row(st, token) == QueryFirst(st, token)

\* mark_used that flips the flag instead of setting it
mark_used_toggle(st, token) ==
    IF QueryFirst(st, token) # NoRow
    THEN [i \in 1 .. Len(st) |->
            IF i = QueryFirst(st, token).id
            THEN [st[i] EXCEPT !.used = ~st[i].used] ELSE st[i]]
    ELSE st

\* mark_used that marks every row issued for the address of the token's row
mark_used_by_email(st, token) ==
    IF QueryFirst(st, token) # NoRow
    THEN [i \in 1 .. Len(st) |->
            IF st[i].email = QueryFirst(st, token).email
            THEN [st[i] EXCEPT !.used = TRUE] ELSE st[i]]
    ELSE st

\* mark_used without session.commit(): the change is lost at session.close()
mark_used_no_commit(st, token) == st

mark_used(st, token) ==
    IF QueryFirst(st, token) # NoRow
    THEN [i \in 1 .. Len(st) |->
            IF i = QueryFirst(st, token).id THEN [st[i] EXCEPT !.used = TRUE] ELSE st[i]]
    ELSE st

\* ------------------------------------------------------------ Flask handlers
\* render_template_string(HTML_FORM, message=..., show_form=..., email=...)
Page(message, show_form, email) ==
    [status |-> 200, message |-> message, show_form |-> show_form, email |-> email,
     cause |-> "none"]

\* a plain-text response with its status; cause names the disjunct of the
\* `or` chain of post_reset that rejected the request
Plain(status, body, cause) ==
    [status |-> status, message |-> body, show_form |-> FALSE, email |-> NoEmail,
     cause |-> cause]

NoResp == Plain(0, "", "none")

\* get_reset that treats the instant expires_at itself as expired
get_reset_expired_at_boundary(token, st, t) ==
    LET row == get_token_row(st, token) IN
    [store |-> st,
     resp |->
        IF token = "" THEN Page("Missing token.", FALSE, NoEmail)
        ELSE IF row = NoRow THEN Page("Invalid token.", FALSE, NoEmail)
        ELSE IF row.used THEN Page("This link has already been used.", FALSE, NoEmail)
        ELSE IF row.expires_at <= t THEN Page("This link has expired.", FALSE, NoEmail)
        ELSE Page("", TRUE, row.email)]

\* get_reset without the expiry check
get_reset_ignores_expiry(token, st, t) ==
    LET row == get_token_row(st, token) IN
    [store |-> st,
     resp |->
        IF token = "" THEN Page("Missing token.", FALSE, NoEmail)
        ELSE IF row = NoRow THEN Page("Invalid token.", FALSE, NoEmail)
        ELSE IF row.used THEN Page("This link has already been used.", FALSE, NoEmail)
        ELSE Page("", TRUE, row.email)]

\* get_reset that checks expiry before used
get_reset_expiry_first(token, st, t) ==
    LET row == get_token_row(st, token) IN
    [store |-> st,
     resp |->
        IF token = "" THEN Page("Missing token.", FALSE, NoEmail)
        ELSE IF row = NoRow THEN Page("Invalid token.", FALSE, NoEmail)
        ELSE IF row.expires_at < t THEN Page("This link has expired.", FALSE, NoEmail)
        ELSE IF row.used THEN Page("This link has already been used.", FALSE, NoEmail)
        ELSE Page("", TRUE, row.email)]

\* get_reset that consumes the token when it shows the form
get_reset_marks_used(token, st, t) ==
    LET row == get_token_row(st, token) IN
    [store |-> IF row # NoRow /\ ~row.used /\ ~(row.expires_at < t)
               THEN mark_used(st, token) ELSE st,
     resp |->
        IF token = "" THEN Page("Missing token.", FALSE, NoEmail)
        ELSE IF row = NoRow THEN Page("Invalid token.", FALSE, NoEmail)
        ELSE IF row.used THEN Page("This link has already been used.", FALSE, NoEmail)
        ELSE IF row.expires_at < t THEN Page("This link has expired.", FALSE, NoEmail)
        ELSE Page("", TRUE, row.email)]

\* get_reset: the response for the table st as get_token_row read it (line
\* 181) and the clock t as line 186 reads it, and the table as the handler
\* leaves it.
get_reset(token, st, t) ==
    LET row == get_token_row(st, token) IN
    [store |-> st,
     resp |->
        IF token = "" THEN Page("Missing token.", FALSE, NoEmail)
        ELSE IF row = NoRow THEN Page("Invalid token.", FALSE, NoEmail)
        ELSE IF row.used THEN Page("This link has already been used.", FALSE, NoEmail)
        ELSE IF row.expires_at < t THEN Page("This link has expired.", FALSE, NoEmail)
        ELSE Page("", TRUE, row.email)]

\* post_reset that calls mark_used before it checks the row
post_reset_check_marks_first(token, password, st, t) ==
    LET row == get_token_row(st, token) IN
    IF token = "" \/ password = ""
    THEN [authorized |-> FALSE, store |-> st,
          resp |-> Plain(400, "Missing token or password", "missing_field")]
    ELSE IF row = NoRow
    THEN [authorized |-> FALSE, store |-> mark_used(st, token),
          resp |-> Plain(400, "Invalid or expired token", "no_row")]
    ELSE IF row.used
    THEN [authorized |-> FALSE, store |-> mark_used(st, token),
          resp |-> Plain(400, "Invalid or expired token", "used")]
    ELSE IF row.expires_at < t
    THEN [authorized |-> FALSE, store |-> mark_used(st, token),
          resp |-> Plain(400, "Invalid or expired token", "expired")]
    ELSE [authorized |-> TRUE, store |-> st, resp |-> NoResp]

\* post_reset that tests only the token, not the password
post_reset_check_no_password_test(token, password, st, t) ==
    LET row == get_token_row(st, token) IN
    IF token = ""
    THEN [authorized |-> FALSE, store |-> st,
          resp |-> Plain(400, "Missing token or password", "missing_field")]
    ELSE IF row = NoRow
    THEN [authorized |-> FALSE, store |-> st,
          resp |-> Plain(400, "Invalid or expired token", "no_row")]
    ELSE IF row.used
    THEN [authorized |-> FALSE, store |-> st,
          resp |-> Plain(400, "Invalid or expired token", "used")]
    ELSE IF row.expires_at < t
    THEN [authorized |-> FALSE, store |-> st,
          resp |-> Plain(400, "Invalid or expired token", "expired")]
    ELSE [authorized |-> TRUE, store |-> st, resp |-> NoResp]

\* post_reset up to its last return before mark_used (lines 193-199), for
\* the table st as get_token_row read it (line 197) and the clock t as line
\* 198 reads it.
post_reset_check(token, password, st, t) ==
    LET row == get_token_row(st, token) IN
    IF token = "" \/ password = ""
    THEN [authorized |-> FALSE, store |-> st,
          resp |-> Plain(400, "Missing token or password", "missing_field")]
    ELSE IF row = NoRow
    THEN [authorized |-> FALSE, store |-> st,
          resp |-> Plain(400, "Invalid or expired token", "no_row")]
    ELSE IF row.used
    THEN [authorized |-> FALSE, store |-> st,
          resp |-> Plain(400, "Invalid or expired token", "used")]
    ELSE IF row.expires_at < t
    THEN [authorized |-> FALSE, store |-> st,
          resp |-> Plain(400, "Invalid or expired token", "expired")]
    ELSE [authorized |-> TRUE, store |-> st, resp |-> NoResp]

\* post_reset from mark_used to the end (lines 202-203).
post_reset_commit(token, st) ==
    [store |-> mark_used(st, token),
     resp |-> Plain(200, "Password updated (demo).", "none")]

\* ------------------------------------------------------------------- state
VARIABLES
    store,      \* the reset_tokens table, rows in id order
    now,        \* datetime.utcnow(), in minutes
    checking,   \* per token: how many POSTs are between their read and their clock read
    marking,    \* per token: how many POSTs are between their clock read and their mark_used
    reading,    \* per token: how many GETs are between their read and their clock read
    answering,  \* per token: how many POSTs are between mark_used and their response
    successes,  \* per token: how many requests post_reset has answered with success
    conv,       \* the ConversationHandler state of the chat
    creating,   \* create_token between its clock read and its commit
    pending,    \* receive_email between create_token and send_reset_email
    last        \* the output of the latest step: an HTTP response, a chat reply
                \* (and mail), or NoOutput

vars == <<store, now, checking, marking, answering, reading, successes, conv,
         creating, pending, last>>

webvars == <<checking, marking, answering, reading, successes>>

RECURSIVE Total(_, _)
Total(f, S) ==
    IF S = {} THEN 0
    ELSE LET x == CHOOSE y \in S : TRUE IN f[x] + Total(f, S \ {x})

\* the web workers that are serving a request: the POSTs before their clock
\* read, before mark_used and before their response, and the GETs before
\* their clock read (every other request is served in one step)
Busy ==
    Total(checking, GenTokens) + Total(marking, GenTokens)
        + Total(answering, GenTokens) + Total(reading, GenTokens)

botvars == <<conv, creating, pending>>

\* the bot is between two updates
BotIdle == creating = NoCreating /\ pending = NoPending

\* an HTTP response, with the request it answers and the time of the answer
Http(method, token, password, t, resp) ==
    [kind |-> "http", method |-> method, token |-> token, password |-> password,
     at |-> t, resp |-> resp, text |-> "", mail |-> NoMail]

\* a chat message of the bot, with the mail send_reset_email was called for
Chat(text, mail) ==
    [kind |-> "chat", method |-> "", token |-> "", password |-> "",
     at |-> 0, resp |-> NoResp, text |-> text, mail |-> mail]

\* a step that sends nothing to a client or to the chat
NoOutput == Chat("", NoMail)

Init ==
    /\ store = << >>
    /\ now = 0
    /\ checking = [t \in GenTokens |-> 0]
    /\ marking = [t \in GenTokens |-> 0]
    /\ answering = [t \in GenTokens |-> 0]
    /\ reading = [t \in GenTokens |-> 0]
    /\ successes = [t \in GenTokens |-> 0]
    /\ conv = ConversationHandler_END
    /\ creating = NoCreating
    /\ pending = NoPending
    /\ last = NoOutput

\* ------------------------------------------------------------------ clock
Tick ==
    /\ \E d \in TickSteps :
        /\ now + d <= MaxTime
        /\ now' = now + d
    /\ last' = NoOutput
    /\ UNCHANGED <<store, webvars, botvars>>

\* -------------------------------------------------------------- web actions
\* the table as a request saw it that read the row of token as unused
AsReadUnused(st, token) ==
    [i \in 1 .. Len(st) |->
        IF st[i].token = token THEN [st[i] EXCEPT !.used = FALSE] ELSE st[i]]

\* the rows a handler changed in the table it read (seen -> out), written
\* to the table as it is now
Written(st, seen, out) ==
    [i \in 1 .. Len(st) |-> IF out[i] # seen[i] THEN out[i] ELSE st[i]]

\* GET /reset?token=... up to the used check (lines 178-185): the row is
\* read by get_token_row, in a session of its own.  Without token, without
\* row, or with a used row the request is answered here; with an unused row
\* it goes on to read the clock.
GetReset(token) ==
    /\ Busy < NumWorkers
    /\ LET row == get_token_row(store, token)
           out == get_reset(token, store, now)
       IN  IF token # "" /\ row # NoRow /\ ~row.used
           THEN /\ reading' = [reading EXCEPT ![token] = @ + 1]
                /\ last' = NoOutput
                /\ UNCHANGED store
           ELSE /\ store' = out.store
                /\ last' = Http("GET", token, "", now, out.resp)
                /\ UNCHANGED reading
    /\ UNCHANGED <<now, checking, marking, answering, successes, botvars>>

\* GET /reset?token=... from the expiry check on (lines 186-189): the clock
\* is read now, the row is the one read before (unused then; its other
\* columns are never written after the insert).
GetExpiry(token) ==
    /\ reading[token] > 0
    /\ LET seen == AsReadUnused(store, token)
           out == get_reset(token, seen, now)
       IN  /\ store' = Written(store, seen, out.store)
           /\ last' = Http("GET", token, "", now, out.resp)
    /\ reading' = [reading EXCEPT ![token] = @ - 1]
    /\ UNCHANGED <<now, checking, marking, answering, successes, botvars>>

\* POST /reset?token=... up to the used test of line 198: the row is read
\* by get_token_row (line 197), in a session of its own.  With a field
\* missing, without row, or with a used row the request is answered here;
\* with an unused row it goes on to read the clock.
PostReset(token, password) ==
    /\ Busy < NumWorkers
    /\ LET row == get_token_row(store, token)
           out == post_reset_check(token, password, store, now)
       IN  IF token # "" /\ password # "" /\ row # NoRow /\ ~row.used
           THEN /\ checking' = [checking EXCEPT ![token] = @ + 1]
                /\ last' = NoOutput
                /\ UNCHANGED <<store, marking>>
           ELSE /\ store' = out.store
                /\ IF out.authorized
                   THEN /\ marking' = [marking EXCEPT ![token] = @ + 1]
                        /\ last' = NoOutput
                   ELSE /\ last' = Http("POST", token, password, now, out.resp)
                        /\ UNCHANGED marking
                /\ UNCHANGED checking
    /\ UNCHANGED <<now, answering, reading, successes, botvars>>

\* POST /reset?token=...: the expiry test of line 198: the clock is read
\* now, the row is the one read before (unused then); the password, having
\* passed line 195, is the non-empty one.
PostExpiry(token) ==
    /\ checking[token] > 0
    /\ LET seen == AsReadUnused(store, token)
           out == post_reset_check(token, "pw", seen, now)
       IN  /\ store' = Written(store, seen, out.store)
           /\ IF out.authorized
              THEN /\ marking' = [marking EXCEPT ![token] = @ + 1]
                   /\ last' = NoOutput
              ELSE /\ last' = Http("POST", token, "pw", now, out.resp)
                   /\ UNCHANGED marking
    /\ checking' = [checking EXCEPT ![token] = @ - 1]
    /\ UNCHANGED <<now, answering, reading, successes, botvars>>

\* POST /reset?token=...: mark_used (line 202), which commits the row as
\* used (line 121) in a session of its own
PostMarkUsed(token) ==
    /\ marking[token] > 0
    /\ store' = post_reset_commit(token, store).store
    /\ marking' = [marking EXCEPT ![token] = @ - 1]
    /\ answering' = [answering EXCEPT ![token] = @ + 1]
    /\ last' = NoOutput
    /\ UNCHANGED <<now, checking, reading, successes, botvars>>

\* POST /reset?token=...: the success response of line 203, after mark_used
\* has returned
PostAnswer(token) ==
    /\ answering[token] > 0
    /\ last' = Http("POST", token, "pw", now, post_reset_commit(token, store).resp)
    /\ successes' = [successes EXCEPT ![token] = @ + 1]
    /\ answering' = [answering EXCEPT ![token] = @ - 1]
    /\ UNCHANGED <<store, now, checking, marking, reading, botvars>>

\* -------------------------------------------------------------- bot actions
\* The bot handles one update at a time; create_token's commit and
\* send_reset_email block it.

\* /start: CommandHandler("start", start)
StartCommand ==
    /\ BotIdle
    /\ last' = Chat("Welcome! Choose an option:", NoMail)
    /\ UNCHANGED <<store, now, webvars, botvars>>

\* the inline button: CallbackQueryHandler(button_callback) runs for every
\* callback query, whatever was said before: the button of a welcome
\* message stays in the chat, also across restarts of the bot, which keeps
\* no record of the messages it sent.  It is no entry point of the
\* ConversationHandler and returns no state.
ButtonCallback ==
    /\ BotIdle
    /\ last' = Chat("Please reply with the email", NoMail)
    /\ UNCHANGED <<store, now, webvars, botvars>>

\* /reset: the entry point of the conversation (allow_reentry = True)
ResetCommand ==
    /\ BotIdle
    /\ last' = Chat("Please reply with the email", NoMail)
    /\ conv' = ASK_EMAIL
    /\ UNCHANGED <<store, now, webvars, creating, pending>>

\* /cancel: a fallback, seen only inside the conversation
Cancel ==
    /\ BotIdle
    /\ conv = ASK_EMAIL
    /\ last' = Chat("Cancelled.", NoMail)
    /\ conv' = ConversationHandler_END
    /\ UNCHANGED <<store, now, webvars, creating, pending>>

\* receive_email that ends the conversation on an invalid text
ReceiveEmail_invalid_ends(text, token) ==
    /\ BotIdle
    /\ conv = ASK_EMAIL
    /\ LET user_text == Strip(text)
       IN  IF ~valid_email(user_text)
           THEN /\ last' = Chat("That doesn't look like a valid email.", NoMail)
                /\ conv' = ConversationHandler_END
                /\ UNCHANGED creating
           ELSE /\ creating' = [token |-> token, to |-> user_text, at |-> now]
                /\ last' = NoOutput
                /\ UNCHANGED conv
    /\ UNCHANGED <<store, now, webvars, pending>>

\* receive_email up to create_token's clock read (lines 230-235 and
\* 100-102): an invalid text is answered here; for a valid one create_token
\* has drawn its token (line 101) and read the clock (line 102).
ReceiveEmail(text, token) ==
    /\ BotIdle
    /\ conv = ASK_EMAIL
    /\ LET user_text == Strip(text)
       IN  IF ~valid_email(user_text)
           THEN /\ last' = Chat("That doesn't look like a valid email.", NoMail)
                /\ UNCHANGED creating
           ELSE /\ creating' = [token |-> token, to |-> user_text, at |-> now]
                /\ last' = NoOutput
    /\ UNCHANGED <<store, now, webvars, conv, pending>>

\* create_token from the insert to its return (lines 103-108): the row,
\* with the times of the clock read before, is committed now.  When the
\* commit raises, receive_email ends without a reply and the conversation
\* keeps its state.
CreateToken ==
    /\ creating # NoCreating
    /\ LET out == create_token(store, creating.to, creating.token, creating.at)
       IN  /\ store' = out.store
           /\ pending' = IF out.ok THEN [token |-> out.token, to |-> creating.to]
                                   ELSE NoPending
    /\ creating' = NoCreating
    /\ last' = NoOutput
    /\ UNCHANGED <<now, webvars, conv>>

\* receive_email that stays in the conversation and sends again on a failure
SendResetEmail_retries(sent) ==
    /\ pending # NoPending
    /\ last' = Chat(IF sent THEN "Reset link sent" ELSE "Failed to send email.",
                    [to |-> pending.to, token |-> pending.token, sent |-> sent])
    /\ conv' = IF sent THEN ConversationHandler_END ELSE conv
    /\ pending' = IF sent THEN NoPending ELSE pending
    /\ UNCHANGED <<store, now, webvars, creating>>

\* receive_email from send_reset_email to its return (lines 236-243)
SendResetEmail(sent) ==
    /\ pending # NoPending
    /\ last' = Chat(IF sent THEN "Reset link sent" ELSE "Failed to send email.",
                    [to |-> pending.to, token |-> pending.token, sent |-> sent])
    /\ conv' = ConversationHandler_END
    /\ pending' = NoPending
    /\ UNCHANGED <<store, now, webvars, creating>>

Next ==
    \/ Tick
    \/ \E token \in TokenArgs : GetReset(token)
    \/ \E token \in GenTokens : GetExpiry(token)
    \/ \E token \in TokenArgs, password \in Passwords : PostReset(token, password)
    \/ \E token \in GenTokens : PostExpiry(token)
    \/ \E token \in GenTokens : PostMarkUsed(token)
    \/ \E token \in GenTokens : PostAnswer(token)
    \/ StartCommand
    \/ ButtonCallback
    \/ ResetCommand
    \/ Cancel
    \/ \E text \in EmailTexts, token \in GenTokens : ReceiveEmail(text, token)
    \/ CreateToken
    \/ \E sent \in BOOLEAN : SendResetEmail(sent)

Spec == Init /\ [][Next]_vars

\* The bot process alone (python app.py bot), with every text of Texts as
\* the message, until the table holds MaxIssued rows.
BotNext ==
    \/ StartCommand
    \/ ButtonCallback
    \/ ResetCommand
    \/ Cancel
    \/ \E text \in Texts, token \in GenTokens :
          Len(store) < MaxIssued /\ ReceiveEmail(text, token)
    \/ CreateToken
    \/ \E sent \in BOOLEAN : SendResetEmail(sent)

BotSpec == Init /\ [][BotNext]_vars

\* ================================================================== claims
Row(t) == QueryFirst(store, t)

UsedMessage == "This link has already been used."
ExpiredMessage == "This link has expired."

\* The steps of the handlers, as the formulas below name them: each is the
\* action itself, with what such a step shows in the next state put first
\* (a step that changes no variable is left out: [A]_vars holds of it).
\* last is the output of the step: last' is what the step sends.
\* a GET reads the row (and is answered at once, or goes on to the clock)
GetReadStep(token) ==
    /\ \/ reading' # reading
       \/ last'.method = "GET" /\ last'.token = token /\ last'.at = now
    /\ GetReset(token)

\* a GET that read its row as unused reads the clock and is answered
GetExpiryStep(token) ==
    /\ token \in GenTokens
    /\ reading'[token] < reading[token]
    /\ GetExpiry(token)

\* a GET is answered, by either step
GetStep(token) ==
    /\ last'.method = "GET" /\ last'.token = token /\ last'.at = now
    /\ \/ reading' = reading /\ GetReset(token)
       \/ GetExpiryStep(token)

\* the GET of this step read its row as unused and goes on to the clock
ReadUnused(token) == reading'[token] = reading[token] + 1

\* a POST reads the row (and is answered at once, or goes on to the clock)
PostStep(token, password) ==
    /\ \/ checking' # checking
       \/ marking' # marking
       \/ last'.method = "POST" /\ last'.token = token /\ last'.password = password
    /\ PostReset(token, password)

\* a POST that read its row as unused reads the clock, and is rejected as
\* expired or passes
PostExpiryStep(token) ==
    /\ token \in GenTokens
    /\ checking'[token] < checking[token]
    /\ PostExpiry(token)

\* the POST of this step read its row as unused and goes on to the clock
PostReadUnused(token) == checking'[token] = checking[token] + 1

\* a POST that passed the check commits its mark_used
MarkStep(token) ==
    /\ marking'[token] < marking[token]
    /\ PostMarkUsed(token)

\* a POST whose mark_used has returned is answered
AnswerStep(token) ==
    /\ answering'[token] < answering[token]
    /\ PostAnswer(token)

\* the POST of this step passed the authorizing check
Authorized(token) == marking'[token] = marking[token] + 1

\* receive_email takes a text: it rejects it, or enters create_token
ReceiveStep(text, token) ==
    /\ conv = ASK_EMAIL /\ BotIdle
    /\ \/ creating'.token = token
       \/ last'.text = "That doesn't look like a valid email."
    /\ ReceiveEmail(text, token)

\* create_token commits its row, or raises
CreateStep ==
    /\ creating # NoCreating
    /\ creating' = NoCreating
    /\ CreateToken

\* C1: concurrent POSTs on one PENDING, non-expired token: exactly one is
\* told success, so no token is ever answered with success twice.
C1_OneSuccessPerToken ==
    \A t \in GenTokens : successes[t] <= 1

\* C2: once a POST of token t was answered with success, every GET or POST
\* of t that starts later (reads the row later) is rejected as already
\* used: the GET is answered at its read with the "already used" page
\* without the form, the POST gets 400 (from the used check when it carries
\* a password) and does not go on to mark_used.
C2_UsedAfterSuccess ==
    [][\A t \in GenTokens : successes[t] > 0 =>
          /\ GetReadStep(t) =>
                /\ reading' = reading
                /\ last'.resp.message = UsedMessage
                /\ ~last'.resp.show_form
          /\ \A pw \in Passwords : PostStep(t, pw) =>
                /\ checking' = checking
                /\ marking' = marking
                /\ last'.resp.status = 400
                /\ pw # "" => last'.resp.cause = "used"]_vars

\* C2 witness: a GET of a token answered "already used" after a success.
C2_Witness ==
    \E t \in GenTokens :
        /\ successes[t] = 1
        /\ last.kind = "http" /\ last.method = "GET" /\ last.token = t
        /\ last.resp.message = UsedMessage /\ ~last.resp.show_form

\* C3 as stated: GET shows the form, and a POST with a password passes the
\* authorizing check, exactly when used = FALSE and now < expires_at (used
\* as the request's read finds it, now as its clock read finds it).
C3_RedeemableStrict ==
    [][\A t \in GenTokens :
          /\ (GetReadStep(t) /\ Row(t) # NoRow) =>
                /\ ReadUnused(t) <=> ~Row(t).used
                /\ reading' = reading => ~last'.resp.show_form
          /\ GetExpiryStep(t) =>
                (last'.resp.show_form <=> now < Row(t).expires_at)
          /\ (PostStep(t, "pw") /\ Row(t) # NoRow) =>
                /\ PostReadUnused(t) <=> ~Row(t).used
                /\ ~Authorized(t)
          /\ PostExpiryStep(t) =>
                (Authorized(t) <=> now < Row(t).expires_at)]_vars

\* C3 amended: GET shows the form, and a POST with a password passes the
\* authorizing check (and then runs mark_used and is answered with success),
\* exactly when used = FALSE and now <= expires_at: the instant expires_at
\* is redeemable.
\* Both requests take used from their read of the row and now from their
\* later read of the clock: they go on to the clock exactly when they read
\* the row as unused, and then show the form, or pass, exactly when
\* now <= expires_at.
C3_RedeemableInclusive ==
    [][/\ \A t \in GenTokens :
             /\ (GetReadStep(t) /\ Row(t) # NoRow) =>
                   /\ ReadUnused(t) <=> ~Row(t).used
                   /\ reading' = reading => ~last'.resp.show_form
             /\ GetExpiryStep(t) =>
                   (last'.resp.show_form <=> now <= Row(t).expires_at)
             /\ (PostStep(t, "pw") /\ Row(t) # NoRow) =>
                   /\ PostReadUnused(t) <=> ~Row(t).used
                   /\ ~Authorized(t)
             /\ PostExpiryStep(t) =>
                   (Authorized(t) <=> now <= Row(t).expires_at)
       /\ \A t \in GenTokens :
             /\ MarkStep(t) => answering'[t] = answering[t] + 1
             /\ AnswerStep(t) =>
                   /\ last'.method = "POST" /\ last'.token = t
                   /\ last'.resp.status = 200]_vars

\* C3 witness: the form was shown at the instant expires_at.
C3_Witness ==
    \E t \in GenTokens :
        /\ Row(t) # NoRow
        /\ last.kind = "http" /\ last.method = "GET" /\ last.token = t
        /\ last.at = Row(t).expires_at
        /\ last.resp.show_form

\* C4: used is monotone: a row whose used flag is TRUE is still there, and
\* still used, after every step.
C4_UsedMonotone ==
    [][store' # store =>
          \A i \in 1 .. Len(store) : store[i].used =>
              /\ i <= Len(store')
              /\ store'[i].used]_vars

\* C4 witness: a token answered with success twice (two mark_used calls on
\* its row), and the row is used.
C4_Witness ==
    \E t \in GenTokens :
        /\ successes[t] = 2
        /\ Row(t) # NoRow /\ Row(t).used

\* C5: an EXPIRED row (never used, clock past expires_at) is terminal: no
\* step changes it.
C5_ExpiredIsTerminal ==
    [][\A i \in 1 .. Len(store) : (~store[i].used /\ store[i].expires_at < now) =>
          /\ i <= Len(store')
          /\ store'[i] = store[i]]_vars

\* C6: a never-used token evaluated at a clock value strictly greater than
\* expires_at is rejected as expired: the GET renders the "expired" page
\* without the form, the POST goes from its read of the row to the clock
\* and is there answered 400 by the expiry check.
C6_ExpiredRejected ==
    [][\A t \in GenTokens :
          /\ (GetStep(t) /\ Row(t) # NoRow /\ ~Row(t).used /\ now > Row(t).expires_at) =>
                /\ last'.resp.message = ExpiredMessage
                /\ ~last'.resp.show_form
          /\ (PostStep(t, "pw") /\ Row(t) # NoRow /\ ~Row(t).used
                    /\ now > Row(t).expires_at) =>
                        /\ PostReadUnused(t)
                        /\ marking' = marking
          /\ (PostExpiryStep(t) /\ ~Row(t).used /\ now > Row(t).expires_at) =>
                /\ marking' = marking
                /\ last'.resp.status = 400
                /\ last'.resp.cause = "expired"]_vars

\* C6 witness: a token issued at T0 with the 60-minute window, never used,
\* got the "expired" page at T0 + 61.
C6_Witness ==
    \E t \in GenTokens :
        /\ Row(t) # NoRow /\ ~Row(t).used
        /\ last.kind = "http" /\ last.method = "GET" /\ last.token = t
        /\ last.at = Row(t).created_at + RESET_EXPIRY_MINUTES + 1
        /\ last.resp.message = ExpiredMessage /\ ~last.resp.show_form

\* C7 as stated: the token create_token returns for a valid email is VALID
\* at the clock value of its return: a GET evaluated then, on the table as
\* create_token left it, shows the form bound to the lower-cased, trimmed
\* address.
C7_ValidWhenIssued ==
    [][(CreateStep /\ Len(store') > Len(store)) =>
          LET out == get_reset(creating.token, store', now) IN
              /\ out.resp.status = 200
              /\ out.resp.show_form
              /\ out.resp.email = Strip(Lower(creating.to))]_vars

\* C7 amended: create_token for a valid email reads the clock, and then
\* commits a row, unused, whose email is the lower-cased, trimmed text and
\* whose created_at is the clock value it read; a GET of that token whose
\* own clock read still finds that value, the row untouched, shows the form
\* bound to that email.  (The clock may have moved on before the commit.)
C7_FreshTokenValid ==
    [][/\ \A text \in EmailTexts, t \in GenTokens :
             (ReceiveStep(text, t) /\ valid_email(Strip(text))) =>
                 creating' = [token |-> t, to |-> Strip(text), at |-> now]
       /\ (CreateStep /\ Row(creating.token) = NoRow) =>
             /\ Len(store') = Len(store) + 1
             /\ store'[Len(store')].token = creating.token
             /\ store'[Len(store')].email = Strip(Lower(creating.to))
             /\ store'[Len(store')].created_at = creating.at
             /\ ~store'[Len(store')].used
       /\ \A t \in GenTokens :
             (GetReadStep(t) /\ Row(t) # NoRow /\ ~Row(t).used) => ReadUnused(t)
       /\ \A t \in GenTokens :
             (GetStep(t) /\ Row(t) # NoRow /\ ~Row(t).used /\ Row(t).created_at = now) =>
                 /\ last'.resp.status = 200
                 /\ last'.resp.show_form
                 /\ last'.resp.email = Row(t).email]_vars

\* C7 witness: the form for the address typed as " B@b.c " was shown, as
\* b@b.c, at the clock value of the token's created_at (the mail to B@b.c is
\* still to be sent).
C7_Witness ==
    \E t \in GenTokens :
        /\ Row(t) # NoRow
        /\ pending = [token |-> t, to |-> <<"B", "@", "b", ".", "c">>]
        /\ last.kind = "http" /\ last.method = "GET" /\ last.token = t
        /\ last.at = Row(t).created_at
        /\ last.resp.show_form
        /\ last.resp.email = <<"b", "@", "b", ".", "c">>

\* C8 as stated: a GET answered when the row of its token is both used and
\* past expires_at gets the "already used" page, never the "expired" one.
C8_UsedBeatsExpired ==
    [][\A t \in GenTokens :
          (GetStep(t) /\ Row(t) # NoRow /\ Row(t).used /\ Row(t).expires_at < now) =>
              last'.resp.message = UsedMessage]_vars

\* C8 for the row as the request read it: GET checks nonexistence, then
\* used, then expiry: a token without a row gets "Invalid token.", a row read
\* as used gets the "already used" page whatever the clock, both at the
\* read; the clock is consulted only for a row read as unused, and that
\* request is answered with the "expired" page or the form.
C8_CheckOrder ==
    [][/\ \A t \in TokenArgs \ {""} :
             /\ (GetReadStep(t) /\ Row(t) = NoRow) =>
                   /\ reading' = reading
                   /\ last'.resp.message = "Invalid token."
             /\ (GetReadStep(t) /\ Row(t) # NoRow /\ Row(t).used) =>
                   /\ reading' = reading
                   /\ last'.resp.message = UsedMessage
       /\ \A t \in GenTokens :
             GetExpiryStep(t) =>
                 \/ last'.resp.message = ExpiredMessage /\ Row(t).expires_at < now
                 \/ last'.resp.show_form /\ now <= Row(t).expires_at]_vars

\* C8 witness: a used row got the "already used" page after its expires_at.
C8_Witness ==
    \E t \in GenTokens :
        /\ Row(t) # NoRow /\ Row(t).used
        /\ last.kind = "http" /\ last.method = "GET" /\ last.token = t
        /\ last.at > Row(t).expires_at
        /\ last.resp.message = UsedMessage

\* C9: a GET leaves the table as it was, whatever its token argument, in
\* both of its steps.
C9_GetReadOnly ==
    [][\A token \in TokenArgs :
          (GetReadStep(token) \/ GetExpiryStep(token)) => store' = store]_vars

\* C9 witness: the form was shown for a token and its row is still unused.
C9_Witness ==
    \E t \in GenTokens :
        /\ Row(t) # NoRow /\ ~Row(t).used
        /\ successes[t] = 0
        /\ Busy = 0
        /\ last.kind = "http" /\ last.method = "GET" /\ last.token = t
        /\ last.resp.show_form

\* C10: a POST (token and password given) rejected for a missing, used or
\* expired row is answered 400, leaves the table as it was and does not go
\* on to mark_used.
C10_RejectedPostNoWrite ==
    [][/\ \A t \in TokenArgs \ {""} :
             (PostStep(t, "pw") /\ (Row(t) = NoRow \/ Row(t).used)) =>
                 /\ last'.resp.status = 400
                 /\ last'.resp.cause = IF Row(t) = NoRow THEN "no_row" ELSE "used"
                 /\ store' = store
                 /\ checking' = checking
                 /\ marking' = marking
                 /\ successes' = successes
       /\ \A t \in GenTokens :
             (PostExpiryStep(t) /\ Row(t).expires_at < now) =>
                 /\ last'.resp.status = 400
                 /\ last'.resp.cause = "expired"
                 /\ store' = store
                 /\ marking' = marking
                 /\ successes' = successes]_vars

\* C10 witness: a POST was rejected as expired and the row is still unused.
C10_Witness ==
    \E t \in GenTokens :
        /\ Row(t) # NoRow /\ ~Row(t).used
        /\ last.kind = "http" /\ last.method = "POST" /\ last.token = t
        /\ last.resp.status = 400 /\ last.resp.cause = "expired"

InvalidEmailText == "That doesn't look like a valid email."
AskEmailText == "Please reply with the email"

\* C11: a POST whose token or password is empty is answered 400 by the
\* field test of line 195, which comes before get_token_row: the rejection
\* is that of the missing field whatever the table holds for the token, the
\* table is unchanged and the request does not go on to mark_used.
C11_MissingFieldRejected ==
    [][\A t \in TokenArgs, pw \in Passwords :
          (PostStep(t, pw) /\ (t = "" \/ pw = "")) =>
              /\ last'.resp.status = 400
              /\ last'.resp.cause = "missing_field"
              /\ store' = store
              /\ checking' = checking
              /\ marking' = marking
              /\ successes' = successes]_vars

\* C11 witness: a POST without password was answered 400 for a token that
\* is unused and not expired.
C11_Witness ==
    \E t \in GenTokens :
        /\ Row(t) # NoRow /\ ~Row(t).used /\ now <= Row(t).expires_at
        /\ last.kind = "http" /\ last.method = "POST" /\ last.token = t
        /\ last.password = ""
        /\ last.resp.status = 400 /\ last.resp.cause = "missing_field"

\* C12: the dialogue is in AWAITING_EMAIL after either entry: whenever the
\* bot has just sent the request for the email (sent by /reset and by the
\* inline button alike), the conversation is in ASK_EMAIL, so the next text
\* goes to receive_email.
C12_PromptMeansAwaiting ==
    last.text = AskEmailText => conv = ASK_EMAIL

\* C13: in ASK_EMAIL a text that fails valid_email gets the re-prompt, the
\* conversation stays in ASK_EMAIL, no row is added and no mail is sent or
\* left to send.
C13_InvalidEmailReprompt ==
    [][\A text \in EmailTexts, t \in GenTokens :
          (ReceiveStep(text, t) /\ ~valid_email(Strip(text))) =>
              /\ last'.text = InvalidEmailText
              /\ last'.mail = NoMail
              /\ conv' = ASK_EMAIL
              /\ store' = store
              /\ creating' = NoCreating
              /\ pending' = NoPending]_vars

\* C13 witness: the re-prompt is the latest message and the conversation
\* still waits for the email.
C13_Witness ==
    /\ last.kind = "chat" /\ last.text = InvalidEmailText
    /\ conv = ASK_EMAIL /\ BotIdle

\* the step of receive_email from send_reset_email on, with the outcome sent
SendStep(sent) ==
    /\ pending # NoPending
    /\ last'.mail.sent = sent
    /\ SendResetEmail(sent)

\* C14 as stated: when send_reset_email raises after create_token, the
\* user gets the failure message once (one attempt, for the token just
\* created), nothing is left to send, the conversation ends, and the row of
\* the token is in the table with used = FALSE.
C14_StaysPending ==
    [][SendStep(FALSE) =>
          /\ last' = Chat("Failed to send email.",
                          [to |-> pending.to, token |-> pending.token, sent |-> FALSE])
          /\ pending' = NoPending
          /\ conv' = ConversationHandler_END
          /\ QueryFirst(store', pending.token) # NoRow
          /\ ~QueryFirst(store', pending.token).used]_vars

\* C14 amended: when send_reset_email raises after create_token, the user
\* gets the failure message once (one attempt, for the token just created),
\* nothing is left to send, the conversation ends, and the failure leaves
\* the table as it is: the row of the token is there, and it is unused
\* unless a POST that presented the token passed the check and ran
\* mark_used before the failure was reported.
C14_SendFailureKeepsToken ==
    [][SendStep(FALSE) =>
          /\ last' = Chat("Failed to send email.",
                          [to |-> pending.to, token |-> pending.token, sent |-> FALSE])
          /\ pending' = NoPending
          /\ conv' = ConversationHandler_END
          /\ store' = store
          /\ Row(pending.token) # NoRow
          /\ Row(pending.token).used =>
                answering[pending.token] + successes[pending.token] > 0]_vars

\* C14 witness: the failure message is the latest one, the conversation is
\* over, and the token of the failed mail has an unused, unexpired row.
C14_Witness ==
    /\ last.kind = "chat" /\ last.text = "Failed to send email."
    /\ ~last.mail.sent
    /\ conv = ConversationHandler_END /\ BotIdle
    /\ Row(last.mail.token) # NoRow
    /\ ~Row(last.mail.token).used /\ now <= Row(last.mail.token).expires_at

\* C15: no two rows have the same token, and create_token with a token
\* that some row already has fails (ok = FALSE) and returns the table as it
\* was, whatever the address.
C15_TokensUnique ==
    /\ \A i, j \in 1 .. Len(store) : store[i].token = store[j].token => i = j
    /\ \A t \in GenTokens, text \in EmailTexts :
          Row(t) # NoRow =>
              LET out == create_token(store, Strip(text), t, now) IN
                  ~out.ok /\ out.store = store

\* C15 witness: create_token is about to commit a token that a row of the
\* table already has.
C15_Witness ==
    /\ creating # NoCreating
    /\ Row(creating.token) # NoRow

\* C16: a step that changes the table deletes no row and changes nothing
\* but used in the rows it had; the step of a successful POST for t adds no
\* row and leaves every row of another token as it was.
C16_OnlyUsedChanges ==
    [][store' # store =>
          /\ Len(store') >= Len(store)
          /\ \A i \in 1 .. Len(store) :
                store'[i] = [store[i] EXCEPT !.used = store'[i].used]
          /\ \A t \in GenTokens :
                MarkStep(t) =>
                    /\ Len(store') = Len(store)
                    /\ \A i \in 1 .. Len(store) :
                          store[i].token # t => store'[i] = store[i]]_vars

\* C16 witness: two tokens issued for the same address; one was redeemed,
\* and the GET of the other then showed the form.
C16_Witness ==
    \E t, u \in GenTokens :
        /\ t # u
        /\ Row(t) # NoRow /\ Row(u) # NoRow
        /\ Row(t).email = Row(u).email
        /\ Row(t).used /\ successes[t] > 0
        /\ ~Row(u).used
        /\ last.kind = "http" /\ last.method = "GET" /\ last.token = u
        /\ last.resp.show_form

\* C17: on the current table, mark_used of a token that no row has returns
\* the table unchanged; of a token that a row has, it returns the table with
\* used = TRUE in that row and nothing else changed; and mark_used applied
\* to its own result returns that result.
C17_MarkUsedIdempotent ==
    \A t \in TokenArgs :
        LET once == mark_used(store, t) IN
            /\ Row(t) = NoRow => once = store
            /\ Row(t) # NoRow =>
                  /\ Len(once) = Len(store)
                  /\ \A i \in 1 .. Len(store) :
                        once[i] = IF store[i].token = t
                                  THEN [store[i] EXCEPT !.used = TRUE]
                                  ELSE store[i]
            /\ mark_used(once, t) = once

\* C17 witness: mark_used ran twice on the row of one token, which is used,
\* while the row of the other token is still unused.
C17_Witness ==
    \E t, u \in GenTokens :
        /\ successes[t] = 2 /\ Row(t).used
        /\ u # t /\ Row(u) # NoRow /\ ~Row(u).used

\* the pattern in words: exactly one '@' with something before it, no
\* whitespace anywhere, and after the '@' a dot with something on both sides
BasicPattern(s) ==
    /\ Cardinality({i \in 1 .. Len(s) : s[i] = "@"}) = 1
    /\ \A i \in 1 .. Len(s) : ~IsSpace(s[i])
    /\ \E a, d \in 1 .. Len(s) :
          /\ s[a] = "@" /\ 1 < a
          /\ s[d] = "." /\ a + 1 < d /\ d < Len(s)

\* C18: a token is issued only for a text that matches the pattern as a
\* whole: the text a mail is about to be sent to, and the text a mail was
\* sent to, have one '@', a dotted domain and no whitespace.
C18_WholeInputMatched ==
    /\ pending # NoPending => BasicPattern(pending.to)
    /\ last.mail # NoMail => BasicPattern(last.mail.to)

\* C19 as stated: the row is committed before the send, and every valid
\* submission creates exactly one row and leaves exactly one mail to send:
\* the create_token it entered adds the row of its token.
C19_EverySubmissionCreates ==
    [][/\ pending' # NoPending => QueryFirst(store', pending'.token) # NoRow
       /\ last'.mail # NoMail => QueryFirst(store', last'.mail.token) # NoRow
       /\ CreateStep =>
             /\ Len(store') = Len(store) + 1
             /\ store'[Len(store')].token = creating.token
             /\ pending' = [token |-> creating.token, to |-> creating.to]]_vars

\* C19 amended: the row is committed before the send: the token of a mail
\* that is about to be sent, or was sent or attempted, has a row.  A valid
\* submission enters create_token once, without a row or a mail yet; when
\* its token is new, create_token adds exactly one row, for that token, and
\* leaves exactly one mail to send, which the send step attempts once; when
\* create_token raises on a colliding token (C15) the submission adds no
\* row and attempts no send.
C19_RecordBeforeSend ==
    [][/\ pending' # NoPending => QueryFirst(store', pending'.token) # NoRow
       /\ last'.mail # NoMail => QueryFirst(store', last'.mail.token) # NoRow
       /\ \A text \in EmailTexts, t \in GenTokens :
             (ReceiveStep(text, t) /\ valid_email(Strip(text))) =>
                 /\ creating' = [token |-> t, to |-> Strip(text), at |-> now]
                 /\ store' = store
                 /\ pending' = NoPending
                 /\ last' = NoOutput
       /\ CreateStep =>
             IF Row(creating.token) = NoRow
             THEN /\ Len(store') = Len(store) + 1
                  /\ SubSeq(store', 1, Len(store)) = store
                  /\ store'[Len(store')].token = creating.token
                  /\ pending' = [token |-> creating.token, to |-> creating.to]
                  /\ last' = NoOutput
             ELSE /\ store' = store
                  /\ pending' = NoPending
                  /\ last' = NoOutput
       /\ \A sent \in BOOLEAN :
             SendStep(sent) =>
                 /\ Row(pending.token) # NoRow
                 /\ last'.mail = [to |-> pending.to, token |-> pending.token,
                                  sent |-> sent]
                 /\ pending' = NoPending
                 /\ store' = store]_vars

\* C19 witness: a mail was sent for the one row of the table.
C19_Witness ==
    /\ Len(store) = 1
    /\ last.kind = "chat" /\ last.mail # NoMail /\ last.mail.sent
    /\ Row(last.mail.token) # NoRow
    /\ BotIdle

\* C20: a row is used only if a POST for its token has passed the
\* authorizing check and returns success: that POST is past its mark_used
\* and about to be answered, or has been answered, with success.  used goes
\* from FALSE to TRUE only in the mark_used step of a POST that passed the
\* check, a new row is unused; a POST that passed does nothing but mark_used
\* and is then answered with nothing but success; and a POST passes only
\* after it read the row of its token as there and unused, and then the
\* clock as not past expires_at.
C20_UsedOnlyByAuthorizedPost ==
    [][/\ \A i \in 1 .. Len(store') :
             store'[i].used =>
                 answering'[store'[i].token] + successes'[store'[i].token] > 0
       /\ store' # store =>
             /\ \A i \in 1 .. Len(store) :
                   (i <= Len(store') /\ ~store[i].used /\ store'[i].used) =>
                       /\ marking[store[i].token] > 0
                       /\ MarkStep(store[i].token)
             /\ \A i \in Len(store) + 1 .. Len(store') : ~store'[i].used
       /\ \A t \in GenTokens :
             /\ checking'[t] > checking[t] =>
                   /\ Row(t) # NoRow
                   /\ ~Row(t).used
             /\ marking'[t] > marking[t] =>
                   /\ checking[t] > 0 /\ checking'[t] < checking[t]
                   /\ Row(t) # NoRow
                   /\ now <= Row(t).expires_at
             /\ marking'[t] < marking[t] =>
                   /\ answering'[t] = answering[t] + 1
                   /\ QueryFirst(store', t).used
             /\ answering'[t] > answering[t] => marking'[t] < marking[t]
             /\ answering'[t] < answering[t] =>
                   /\ successes'[t] = successes[t] + 1
                   /\ last'.method = "POST" /\ last'.token = t
                   /\ last'.resp.status = 200
             /\ successes'[t] # successes[t] => answering'[t] < answering[t]]_vars

\* C20 witness: the row of a token is used, one POST for it was answered
\* with success, and that answer is the latest response.
C20_Witness ==
    \E t \in GenTokens :
        /\ Row(t) # NoRow /\ Row(t).used
        /\ successes[t] = 1
        /\ last.kind = "http" /\ last.method = "POST" /\ last.token = t
        /\ last.resp.status = 200

====
